---- MODULE Spec2Model ----
(***************************************************************************)
(* Recommendation bot (discord.js + better-sqlite3): the /recommend stash, *)
(* the background-check stage and the observation stage, as state machines *)
(* of the interaction handlers.                                            *)
(*                                                                         *)
(* The handlers run on one Node.js event loop and every store call is      *)
(* synchronous, so a handler is atomic from one `await` to the next: each  *)
(* action below is one such segment.  An interaction is a record of the    *)
(* sequence `acts` (in arrival order); its pc is the await it is parked    *)
(* at, its reply the one response it has sent.                             *)
(***************************************************************************)
EXTENDS Integers, Sequences, FiniteSets, TLC

VARIABLES
    now,            \* Date.now(), in ms
    pendingProof,   \* Map token -> { url, userId, createdAt, timer, expiresAt }
    timers,         \* armed setTimeout callbacks: [id, token, at]
    nextTimer,      \* next timer handle returned by setTimeout
    bg_checks,      \* table bg_checks: messageId -> [status, selected]
    observations,   \* table observations: <<messageId, idx>> -> row
    message_refs,   \* table message_refs: set of [originMessageId, channelId, messageId]
    messages,       \* transport: messageId -> rendered message
    acts            \* interactions received so far, in arrival order

vars == <<now, pendingProof, timers, nextTimer, bg_checks, observations,
          message_refs, messages, acts>>
stashVars == <<now, pendingProof, timers, nextTimer>>
storeVars == <<bg_checks, observations, message_refs>>

----------------------------------------------------------------------------
(* Bounds *)

MaxActs == 3
MaxFanoutActs == 2          \* interactions delivered in one run
MaxTicks == 3         \* clock ticks in one run
TicksPerTTL == 2      \* clock resolution: ticks in one TTL window

(* Program constants *)

STASH_TTL_MS == 15 * 60000
TickMs == STASH_TTL_MS \div TicksPerTTL
K == 3

Users == {"u1", "u2"}
\* message ids of the recommendations already posted in InitPosted / InitPassed
PostedOrigins == {1}
\* a token is the id of an interaction received earlier (customId of a rendered button)
Tokens == 1..Len(acts)
RECOMMEND_CHANNEL_ID == "recommend"
RECRUITMENT_POLLS_CHANNEL_ID == "polls"
Criteria == {"age", "safechat", "seen", "comms", "history"}

----------------------------------------------------------------------------
(* Map helpers *)

MapPut(m, k, v) == [x \in DOMAIN m \cup {k} |-> IF x = k THEN v ELSE m[x]]
MapDel(m, k) == [x \in DOMAIN m \ {k} |-> m[x]]

----------------------------------------------------------------------------
(* Interactions *)

BlankAct ==
    [kind |-> "", user |-> "", token |-> 0, origin |-> 0, idx |-> 0,
     values |-> {}, content |-> <<>>, pc |-> "done", reply |-> "", by |-> "",
     url |-> 0, comps |-> <<>>, pending |-> {}, fields |-> <<>>,
     found |-> FALSE, at |-> 0, surfaces |-> {}, skipped |-> {}]

Running(i) == acts[i].pc # "done"
CanArrive == Len(acts) < MaxActs
Arrive(a) == acts' = Append(acts, [a EXCEPT !.at = now])
Step(i, a) == acts' = [acts EXCEPT ![i] = a]
\* the handler returns: its locals are gone (surfaces and skipped are kept as
\* the record of what its broadcast read and could not reach)
Reply(a, r) ==
    [a EXCEPT !.pc = "done", !.reply = r, !.comps = <<>>, !.pending = {},
              !.fields = <<>>]

----------------------------------------------------------------------------
(* Ephemeral stash *)

clearTimeout(tm, id) == {t \in tm : t.id # id}

\* mutant: the entry is stored but no cleanup timer is armed
setPending_NoTimer(token, data) ==
    [pp |-> MapPut(pendingProof, token,
                   [url |-> data.url, userId |-> data.userId,
                    createdAt |-> data.createdAt,
                    timer |-> nextTimer, expiresAt |-> now + STASH_TTL_MS]),
     tm |-> timers,
     nt |-> nextTimer + 1]

setPending(token, data) ==
    LET tm == IF token \in DOMAIN pendingProof
              THEN clearTimeout(timers, pendingProof[token].timer)
              ELSE timers
    IN  [pp |-> MapPut(pendingProof, token,
                       [url |-> data.url, userId |-> data.userId,
                        createdAt |-> data.createdAt,
                        timer |-> nextTimer, expiresAt |-> now + STASH_TTL_MS]),
         tm |-> tm \cup {[id |-> nextTimer, token |-> token, at |-> now + STASH_TTL_MS]},
         nt |-> nextTimer + 1]

\* mutant: the old timer is cleared and no new one is armed
refreshPending_NoRearm(token) ==
    IF token \notin DOMAIN pendingProof
    THEN [found |-> FALSE, pp |-> pendingProof, tm |-> timers, nt |-> nextTimer]
    ELSE [found |-> TRUE,
          pp |-> [pendingProof EXCEPT ![token].expiresAt = now + STASH_TTL_MS],
          tm |-> clearTimeout(timers, pendingProof[token].timer),
          nt |-> nextTimer]

\* mutant: a new timer is armed but the old one is left running
refreshPending_KeepOldTimer(token) ==
    IF token \notin DOMAIN pendingProof
    THEN [found |-> FALSE, pp |-> pendingProof, tm |-> timers, nt |-> nextTimer]
    ELSE [found |-> TRUE,
          pp |-> [pendingProof EXCEPT ![token].timer = nextTimer,
                                      ![token].expiresAt = now + STASH_TTL_MS],
          tm |-> timers
                 \cup {[id |-> nextTimer, token |-> token, at |-> now + STASH_TTL_MS]},
          nt |-> nextTimer + 1]

refreshPending(token) ==
    IF token \notin DOMAIN pendingProof
    THEN [found |-> FALSE, pp |-> pendingProof, tm |-> timers, nt |-> nextTimer]
    ELSE [found |-> TRUE,
          pp |-> [pendingProof EXCEPT ![token].timer = nextTimer,
                                      ![token].expiresAt = now + STASH_TTL_MS],
          tm |-> clearTimeout(timers, pendingProof[token].timer)
                 \cup {[id |-> nextTimer, token |-> token, at |-> now + STASH_TTL_MS]},
          nt |-> nextTimer + 1]

\* mutant: get without delete
consumePending_GetOnly(token) ==
    [found |-> token \in DOMAIN pendingProof, pp |-> pendingProof, tm |-> timers]

consumePending(token) ==
    IF token \notin DOMAIN pendingProof
    THEN [found |-> FALSE, pp |-> pendingProof, tm |-> timers]
    ELSE [found |-> TRUE,
          pp |-> MapDel(pendingProof, token),
          tm |-> clearTimeout(timers, pendingProof[token].timer)]

(* The callback armed by setPending / refreshPending: pendingProof.delete(token) *)
TimerFire ==
    \E t \in timers :
        /\ t.at <= now
        /\ timers' = timers \ {t}
        /\ pendingProof' = MapDel(pendingProof, t.token)
        /\ UNCHANGED <<now, nextTimer, storeVars, messages, acts>>

(* Time passes; a callback that is due runs before the clock moves on. *)
Tick ==
    /\ now < MaxTicks * TickMs
    /\ \A t \in timers : t.at > now
    /\ now' = now + TickMs
    /\ UNCHANGED <<pendingProof, timers, nextTimer, storeVars, messages, acts>>

----------------------------------------------------------------------------
(* Store helpers *)

\* mutant: the pair is not recorded
addMsgRef_Noop(refs, originMessageId, channelId, messageId) == refs

addMsgRef(refs, originMessageId, channelId, messageId) ==
    IF \E r \in refs : r.originMessageId = originMessageId /\ r.messageId = messageId
    THEN refs
    ELSE refs \cup {[originMessageId |-> originMessageId, channelId |-> channelId,
                     messageId |-> messageId]}

getMsgRefs(refs, originMessageId) == {r \in refs : r.originMessageId = originMessageId}

\* getBg(...) || {}: a missing row reads as no status and no selection
getBg(tbl, messageId) ==
    IF messageId \in DOMAIN tbl THEN tbl[messageId]
    ELSE [status |-> "NULL", selected |-> {}]

\* mutant: new values are merged into the stored selection
saveBgSelection_Merge(tbl, messageId, values) ==
    IF messageId \in DOMAIN tbl
    THEN [tbl EXCEPT ![messageId].selected = @ \cup values]
    ELSE MapPut(tbl, messageId, [status |-> "NULL", selected |-> values])

\* INSERT (status NULL) ... ON CONFLICT DO UPDATE SET selected_json
saveBgSelection(tbl, messageId, values) ==
    IF messageId \in DOMAIN tbl
    THEN [tbl EXCEPT ![messageId].selected = values]
    ELSE MapPut(tbl, messageId, [status |-> "NULL", selected |-> values])

\* INSERT (selected_json '[]') ... ON CONFLICT DO UPDATE SET status
setBgStatus(tbl, messageId, status) ==
    IF messageId \in DOMAIN tbl
    THEN [tbl EXCEPT ![messageId].status = status]
    ELSE MapPut(tbl, messageId, [status |-> status, selected |-> {}])

\* mutant: tests for the word the schema comment uses ('FAILED')
isBgFinalized_Failed(tbl, originMessageId) ==
    getBg(tbl, originMessageId).status \in {"PASS", "FAILED"}

\* mutant: only PASS counts as finalized
isBgFinalized_PassOnly(tbl, originMessageId) ==
    getBg(tbl, originMessageId).status = "PASS"

isBgFinalized(tbl, originMessageId) ==
    getBg(tbl, originMessageId).status \in {"PASS", "FAIL"}

\* INSERT ... ON CONFLICT(messageId, idx) DO UPDATE: the row's content and
\* byUserId are replaced, createdAt is kept
saveObservation(tbl, messageId, idx, data) == MapPut(tbl, <<messageId, idx>>, data)

HasObservation(tbl, messageId, idx) == <<messageId, idx>> \in DOMAIN tbl

getObservation(tbl, messageId, idx) == tbl[<<messageId, idx>>]

getDoneSet(tbl, messageId) == {k[2] : k \in {k \in DOMAIN tbl : k[1] = messageId}}

\* mutant: completion is detected only with more rows than there are slots
haveAllThree_MoreThanK(tbl, messageId) ==
    Cardinality(getDoneSet(tbl, messageId)) > K

haveAllThree(tbl, messageId) ==
    Cardinality({k \in DOMAIN tbl : k[1] = messageId}) >= 3

----------------------------------------------------------------------------
(* Rendering *)

ChecklistItems == <<"age", "safechat", "seen", "comms", "history">>

\* mutant: only the selected items get a line
buildChecklistLinesFromSelected_SelectedOnly(selected) ==
    SelectSeq([n \in DOMAIN ChecklistItems |->
                  [label |-> ChecklistItems[n], ok |-> ChecklistItems[n] \in selected]],
              LAMBDA l : l.ok)

\* one line per item, in the fixed order, ticked iff its key is selected
buildChecklistLinesFromSelected(selected) ==
    [n \in DOMAIN ChecklistItems |->
        [label |-> ChecklistItems[n], ok |-> ChecklistItems[n] \in selected]]

\* mutant: Pass is offered from 4 selected items on
buildBgActionsRow_PassFromFour(selCount) ==
    IF selCount >= Cardinality(Criteria) - 1 THEN "Pass+Cancel" ELSE "Decline+Cancel"

buildBgActionsRow(selCount) ==
    IF selCount = Cardinality(Criteria) THEN "Pass+Cancel" ELSE "Decline+Cancel"

IsBgField(f) == f.name \in {"Background Check: PASS", "Background Check: FAIL"}

\* mutant: as many view buttons as there are rows, from the left
buildObsRowFromDb_ByCount(tbl, originMessageId) ==
    [n \in 1..K |->
        IF n <= Cardinality(getDoneSet(tbl, originMessageId))
        THEN [id |-> "obs:view", idx |-> n]
        ELSE [id |-> "obs:start", idx |-> n]]

\* mk(1), mk(2), mk(3): a view button for a recorded slot, else a start button
buildObsRowFromDb(tbl, originMessageId) ==
    [n \in 1..K |->
        IF n \in getDoneSet(tbl, originMessageId)
        THEN [id |-> "obs:view", idx |-> n]
        ELSE [id |-> "obs:start", idx |-> n]]

BgStartRow == <<[id |-> "bg:start", idx |-> 0]>>
DisabledRow == <<[id |-> "bg:disabled", idx |-> 0]>>

----------------------------------------------------------------------------
(* Transport *)

NewMessageId == Cardinality(DOMAIN messages) + 1

RecommendationMessage(url) ==
    [channelId |-> RECOMMEND_CHANNEL_ID, title |-> "Recommendation", image |-> url,
     fields |-> <<[name |-> "Recommender", value |-> <<>>],
                  [name |-> "LR Username", value |-> <<>>],
                  [name |-> "Reason", value |-> <<>>]>>,
     components |-> BgStartRow, deleted |-> FALSE]

Fetchable(m) == m \in DOMAIN messages /\ ~messages[m].deleted

\* recommendations posted so far (what a bg / obs customId can name)
Origins == {m \in DOMAIN messages : messages[m].title = "Recommendation"}

(* a moderator deletes a message *)
DeleteMessage ==
    \E m \in DOMAIN messages :
        /\ ~messages[m].deleted
        /\ messages' = [messages EXCEPT ![m].deleted = TRUE]
        /\ UNCHANGED <<stashVars, storeVars, acts>>

----------------------------------------------------------------------------
(* /recommend *)

(* The role check and the attachment checks are the transport's; the handler
   is modelled from `const token = interaction.id` on. *)
RecommendCommand ==
    \E u \in Users :
        /\ CanArrive
        /\ LET token == Len(acts) + 1
               a == [BlankAct EXCEPT !.kind = "recommend", !.user = u, !.token = token]
               s == setPending(token, [url |-> token, userId |-> u, createdAt |-> now])
           IN  /\ pendingProof' = s.pp
               /\ timers' = s.tm
               /\ nextTimer' = s.nt
               /\ Arrive(Reply(a, "Requirements"))
        /\ UNCHANGED <<now, storeVars, messages>>

RecommendContinue ==
    \E u \in Users, token \in Tokens :
        /\ CanArrive
        /\ LET a == [BlankAct EXCEPT !.kind = "recommend:continue", !.user = u,
                                     !.token = token]
               s == refreshPending(token)
           IN  /\ pendingProof' = s.pp
               /\ timers' = s.tm
               /\ nextTimer' = s.nt
               /\ IF ~s.found \/ s.pp[token].userId # u
                  THEN Arrive(Reply([a EXCEPT !.found = s.found], "SessionExpired"))
                  ELSE Arrive(Reply([a EXCEPT !.found = TRUE], "Modal"))
        /\ UNCHANGED <<now, storeVars, messages>>

\* mutant: the message is updated but the entry stays in the stash
RecommendCancel_KeepEntry ==
    \E u \in Users, token \in Tokens :
        /\ CanArrive
        /\ Arrive(Reply([BlankAct EXCEPT !.kind = "recommend:cancel", !.user = u,
                                         !.token = token], "Cancelled"))
        /\ UNCHANGED <<now, pendingProof, timers, nextTimer, storeVars, messages>>

RecommendCancel ==
    \E u \in Users, token \in Tokens :
        /\ CanArrive
        /\ pendingProof' = MapDel(pendingProof, token)
        /\ Arrive(Reply([BlankAct EXCEPT !.kind = "recommend:cancel", !.user = u,
                                         !.token = token], "Cancelled"))
        /\ UNCHANGED <<now, timers, nextTimer, storeVars, messages>>

(* recommend_modal: consume the stash, then await client.channels.fetch *)
RecommendSubmit ==
    \E u \in Users, token \in Tokens :
        /\ CanArrive
        /\ LET a == [BlankAct EXCEPT !.kind = "recommend_modal", !.user = u,
                                     !.token = token]
               s == consumePending(token)
           IN  /\ pendingProof' = s.pp
               /\ timers' = s.tm
               /\ IF ~s.found \/ pendingProof[token].userId # u
                  THEN Arrive(Reply([a EXCEPT !.found = s.found], "SessionExpired"))
                  ELSE Arrive([a EXCEPT !.pc = "fetchDest", !.found = TRUE,
                                        !.url = pendingProof[token].url])
        /\ UNCHANGED <<now, nextTimer, storeVars, messages>>

(* the destination channel and the permission check, then dest.send is issued *)
RecommendFetchDest ==
    \E i \in DOMAIN acts, dest \in {"ok", "missing", "noperm"} :
        /\ acts[i].kind = "recommend_modal" /\ acts[i].pc = "fetchDest"
        /\ CASE dest = "missing" -> Step(i, Reply(acts[i], "DestMissing"))
             [] dest = "noperm" -> Step(i, Reply(acts[i], "NoPermission"))
             [] OTHER -> Step(i, [acts[i] EXCEPT !.pc = "send"])
        /\ UNCHANGED <<stashVars, storeVars, messages>>

(* dest.send: the message appears in the channel, or the call throws *)
RecommendSend ==
    \E i \in DOMAIN acts, ok \in BOOLEAN :
        /\ acts[i].kind = "recommend_modal" /\ acts[i].pc = "send"
        /\ IF ok
           THEN /\ messages' = MapPut(messages, NewMessageId,
                                      RecommendationMessage(acts[i].url))
                /\ Step(i, [acts[i] EXCEPT !.pc = "sent", !.origin = NewMessageId])
           ELSE /\ Step(i, Reply(acts[i], "Failure"))
                /\ UNCHANGED messages
        /\ UNCHANGED <<stashVars, storeVars>>

(* after the await: addMsgRef, consumePending, reply *)
RecommendSent ==
    \E i \in DOMAIN acts :
        /\ acts[i].kind = "recommend_modal" /\ acts[i].pc = "sent"
        /\ message_refs' = addMsgRef(message_refs, acts[i].origin,
                                     RECOMMEND_CHANNEL_ID, acts[i].origin)
        /\ LET s == consumePending(acts[i].token)
           IN  /\ pendingProof' = s.pp
               /\ timers' = s.tm
        /\ Step(i, Reply(acts[i], "Sent"))
        /\ UNCHANGED <<now, nextTimer, bg_checks, observations, messages>>

(* /recommend, in-memory revision: the stash is a bare Map, its cleanup a
   setTimeout whose handle is not kept, and recommend_modal reads the entry
   with get and deletes it only after the message has been sent. *)
MEM_TTL_MS == 3 * 60000

RecommendCommandMem ==
    \E u \in Users :
        /\ CanArrive
        /\ LET token == Len(acts) + 1
               a == [BlankAct EXCEPT !.kind = "recommend", !.user = u, !.token = token]
           IN  /\ pendingProof' = MapPut(pendingProof, token,
                                         [url |-> token, userId |-> u, createdAt |-> now])
               /\ timers' = timers \cup {[id |-> nextTimer, token |-> token,
                                          at |-> now + MEM_TTL_MS]}
               /\ nextTimer' = nextTimer + 1
               /\ Arrive(Reply(a, "Requirements"))
        /\ UNCHANGED <<now, storeVars, messages>>

RecommendContinueMem ==
    \E u \in Users, token \in Tokens :
        /\ CanArrive
        /\ LET a == [BlankAct EXCEPT !.kind = "recommend:continue", !.user = u,
                                     !.token = token]
               found == token \in DOMAIN pendingProof
           IN  IF ~found \/ pendingProof[token].userId # u
               THEN Arrive(Reply([a EXCEPT !.found = found], "SessionExpired"))
               ELSE Arrive(Reply([a EXCEPT !.found = TRUE], "Modal"))
        /\ UNCHANGED <<stashVars, storeVars, messages>>

(* recommend_modal: pendingProof.get, the owner test, then await
   client.channels.fetch; the entry stays in the stash *)
RecommendSubmitMem ==
    \E u \in Users, token \in Tokens :
        /\ CanArrive
        /\ LET a == [BlankAct EXCEPT !.kind = "recommend_modal", !.user = u,
                                     !.token = token]
               found == token \in DOMAIN pendingProof
           IN  IF ~found \/ pendingProof[token].userId # u
               THEN Arrive(Reply([a EXCEPT !.found = found], "SessionExpired"))
               ELSE Arrive([a EXCEPT !.pc = "fetchDest", !.found = TRUE,
                                     !.url = pendingProof[token].url])
        /\ UNCHANGED <<stashVars, storeVars, messages>>

(* after the await on dest.send: bgSessions.set under a fresh UUID (the session
   is the act's origin), pendingProof.delete, reply *)
RecommendSentMem ==
    \E i \in DOMAIN acts :
        /\ acts[i].kind = "recommend_modal" /\ acts[i].pc = "sent"
        /\ pendingProof' = MapDel(pendingProof, acts[i].token)
        /\ Step(i, Reply(acts[i], "Sent"))
        /\ UNCHANGED <<now, timers, nextTimer, storeVars, messages>>

----------------------------------------------------------------------------
(* Background check *)

\* values a reviewer can submit from the select menu (min 0, max 5)
SelectionInputs == {{}, {"age", "safechat", "seen"}, Criteria \ {"history"}, Criteria}

StatusWord(kind) == IF kind = "bg:pass" THEN "PASS" ELSE "FAIL"

BgStart ==
    \E u \in Users, o \in Origins :
        /\ CanArrive
        /\ LET a == [BlankAct EXCEPT !.kind = "bg:start", !.user = u, !.origin = o]
           IN  IF isBgFinalized(bg_checks, o)
               THEN Arrive(Reply(a, "AlreadyFinalized"))
               ELSE Arrive(Reply(a, "Menu"))
        /\ UNCHANGED <<stashVars, storeVars, messages>>

BgMenu ==
    \E u \in Users, o \in Origins, values \in SelectionInputs :
        /\ CanArrive
        /\ LET a == [BlankAct EXCEPT !.kind = "bg:menu", !.user = u, !.origin = o,
                                     !.values = values]
           IN  IF isBgFinalized(bg_checks, o)
               THEN /\ Arrive(Reply(a, "AlreadyFinalized"))
                    /\ UNCHANGED bg_checks
               ELSE /\ bg_checks' = saveBgSelection(bg_checks, o, values)
                    /\ Arrive(Reply(a, buildBgActionsRow(Cardinality(values))))
        /\ UNCHANGED <<stashVars, observations, message_refs, messages>>

\* mutant: cancelling empties the draft selection of every open check
BgCancel_ResetDraft ==
    \E u \in Users :
        /\ CanArrive
        /\ bg_checks' = [m \in DOMAIN bg_checks |->
                            IF bg_checks[m].status = "NULL"
                            THEN [bg_checks[m] EXCEPT !.selected = {}]
                            ELSE bg_checks[m]]
        /\ Arrive(Reply([BlankAct EXCEPT !.kind = "bg:cancel", !.user = u], "Cancelled"))
        /\ UNCHANGED <<stashVars, observations, message_refs, messages>>

BgCancel ==
    \E u \in Users :
        /\ CanArrive
        /\ Arrive(Reply([BlankAct EXCEPT !.kind = "bg:cancel", !.user = u], "Cancelled"))
        /\ UNCHANGED <<stashVars, storeVars, messages>>

(* bg:pass / bg:decline: the first-wins guard and setBgStatus, then
   await ch.messages.fetch(originMessageId) *)
BgFinalize ==
    \E u \in Users, o \in Origins, kind \in {"bg:pass", "bg:decline"} :
        /\ CanArrive
        /\ LET a == [BlankAct EXCEPT !.kind = kind, !.user = u, !.origin = o]
           IN  IF isBgFinalized(bg_checks, o)
               THEN /\ Arrive(Reply(a, "AlreadyFinalized"))
                    /\ UNCHANGED bg_checks
               ELSE /\ bg_checks' = setBgStatus(bg_checks, o, StatusWord(kind))
                    /\ Arrive([a EXCEPT !.pc = "fetchMsg"])
        /\ UNCHANGED <<stashVars, observations, message_refs, messages>>

(* the fetch resolves: no message, or a failed request (.catch(() => null))
   -> "Could not update"; else the new embed and components are built from the
   store and msg.edit is issued *)
BgFetchMsg ==
    \E i \in DOMAIN acts, ok \in BOOLEAN :
        /\ acts[i].kind \in {"bg:pass", "bg:decline"} /\ acts[i].pc = "fetchMsg"
        /\ LET o == acts[i].origin
               word == StatusWord(acts[i].kind)
               lines == buildChecklistLinesFromSelected(getBg(bg_checks, o).selected)
               kept == SelectSeq(messages[o].fields, LAMBDA f : ~IsBgField(f))
               fields == Append(kept, [name |-> "Background Check: " \o word,
                                       value |-> lines])
           IN  IF ~ok \/ ~Fetchable(o)
               THEN Step(i, Reply(acts[i], "CouldNotUpdate"))
               ELSE Step(i, [acts[i] EXCEPT
                        !.pc = "edit",
                        !.fields = fields,
                        !.comps = IF acts[i].kind = "bg:pass"
                                  THEN buildObsRowFromDb(observations, o)
                                  ELSE DisabledRow])
        /\ UNCHANGED <<stashVars, storeVars, messages>>

\* mutant: a throwing msg.edit ends the handler without any reply
BgEdit_SilentFailure ==
    \E i \in DOMAIN acts :
        /\ acts[i].kind \in {"bg:pass", "bg:decline"} /\ acts[i].pc = "edit"
        /\ LET o == acts[i].origin
           IN  IF ~Fetchable(o)
               THEN /\ Step(i, Reply(acts[i], ""))
                    /\ UNCHANGED messages
               ELSE /\ messages' = [messages EXCEPT ![o].fields = acts[i].fields,
                                                    ![o].components = acts[i].comps]
                    /\ Step(i, Reply(acts[i], "Recorded"))
        /\ UNCHANGED <<stashVars, storeVars>>

(* msg.edit lands (or throws: the catch-all replies), then interaction.update *)
BgEdit ==
    \E i \in DOMAIN acts :
        /\ acts[i].kind \in {"bg:pass", "bg:decline"} /\ acts[i].pc = "edit"
        /\ LET o == acts[i].origin
           IN  IF ~Fetchable(o)
               THEN /\ Step(i, Reply(acts[i], "Failure"))
                    /\ UNCHANGED messages
               ELSE /\ messages' = [messages EXCEPT ![o].fields = acts[i].fields,
                                                    ![o].components = acts[i].comps]
                    /\ Step(i, Reply(acts[i], "Recorded"))
        /\ UNCHANGED <<stashVars, storeVars>>

----------------------------------------------------------------------------
(* Background check, unguarded revision (index.js 2545-2641): the same store
   helpers, no isBgFinalized guard; after setBgStatus the handler is the code
   of BgFetchMsg and BgEdit *)

BgStartLater ==
    \E u \in Users, o \in Origins :
        /\ CanArrive
        /\ Arrive(Reply([BlankAct EXCEPT !.kind = "bg:start", !.user = u, !.origin = o],
                        "Menu+Pass+Decline+Cancel"))
        /\ UNCHANGED <<stashVars, storeVars, messages>>

BgMenuLater ==
    \E u \in Users, o \in Origins, values \in SelectionInputs :
        /\ CanArrive
        /\ bg_checks' = saveBgSelection(bg_checks, o, values)
        /\ Arrive(Reply([BlankAct EXCEPT !.kind = "bg:menu", !.user = u, !.origin = o,
                                         !.values = values], "Saved"))
        /\ UNCHANGED <<stashVars, observations, message_refs, messages>>

BgFinalizeLater ==
    \E u \in Users, o \in Origins, kind \in {"bg:pass", "bg:decline"} :
        /\ CanArrive
        /\ bg_checks' = setBgStatus(bg_checks, o, StatusWord(kind))
        /\ Arrive([BlankAct EXCEPT !.kind = kind, !.user = u, !.origin = o,
                                   !.pc = "fetchMsg"])
        /\ UNCHANGED <<stashVars, observations, message_refs, messages>>

----------------------------------------------------------------------------
(* Observations *)

Slots == 1..K

\* what each observer types into the modal: date (prefilled, may be cleared),
\* notes (required), issues (optional)
ContentInputs(u) ==
    IF u = "u1" THEN {[date |-> "", notes |-> "n1", issues |-> ""]}
    ELSE {[date |-> "d2", notes |-> "n2", issues |-> "i2"]}

\* dateInput || today; notes and issues as typed (trim and slice(0, 1024) leave
\* these short inputs as they are)
ObservationRow(content, u) ==
    [username |-> "null",
     date |-> IF content.date = "" THEN "today" ELSE content.date,
     notes |-> content.notes, issues |-> content.issues, byUserId |-> u]

PollsConfigured == RECRUITMENT_POLLS_CHANNEL_ID # ""

\* the confirmation embed (the LR username is read from the origin message for
\* its text only) and interaction.reply
Confirm(a) == Reply(a, "Recorded")

\* Promise.all over no refs, or the last pending edit, resolves: the handler
\* goes on to the mirror step in the same turn of the event loop
AfterBroadcast(a, tbl) ==
    IF haveAllThree(tbl, a.origin) /\ PollsConfigured
    THEN [a EXCEPT !.pc = "mirrorFetch"]
    ELSE Confirm(a)

\* editAllObsMessagesFromDb up to its await: the row and the refs are read now
StartBroadcast(a, tbl) ==
    LET refs == {r.messageId : r \in getMsgRefs(message_refs, a.origin)}
        b == [a EXCEPT !.comps = buildObsRowFromDb(tbl, a.origin), !.pending = refs,
                       !.surfaces = refs]
    IN  IF refs = {} THEN AfterBroadcast(b, tbl) ELSE [b EXCEPT !.pc = "broadcast"]

\* mutant: the input prompt is opened whether or not the slot has a row
ObsStart_AlwaysModal ==
    \E u \in Users, o \in Origins, idx \in Slots :
        /\ CanArrive
        /\ Arrive(Reply([BlankAct EXCEPT !.kind = "obs:start", !.user = u, !.origin = o,
                                         !.idx = idx], "Modal"))
        /\ UNCHANGED <<stashVars, storeVars, messages>>

ObsStart ==
    \E u \in Users, o \in Origins, idx \in Slots :
        /\ CanArrive
        /\ LET a == [BlankAct EXCEPT !.kind = "obs:start", !.user = u, !.origin = o,
                                     !.idx = idx]
           IN  IF HasObservation(observations, o, idx)
               THEN Arrive(Reply([a EXCEPT
                        !.by = getObservation(observations, o, idx).byUserId,
                        !.content = getObservation(observations, o, idx)], "View"))
               ELSE Arrive(Reply(a, "Modal"))
        /\ UNCHANGED <<stashVars, storeVars, messages>>

\* mutant: an empty slot is shown as an empty view instead of an error
ObsView_EmptyView ==
    \E u \in Users, o \in Origins, idx \in Slots :
        /\ CanArrive
        /\ LET a == [BlankAct EXCEPT !.kind = "obs:view", !.user = u, !.origin = o,
                                     !.idx = idx]
           IN  IF ~HasObservation(observations, o, idx)
               THEN Arrive(Reply(a, "View"))
               ELSE Arrive(Reply([a EXCEPT
                        !.by = getObservation(observations, o, idx).byUserId,
                        !.content = getObservation(observations, o, idx)], "View"))
        /\ UNCHANGED <<stashVars, storeVars, messages>>

ObsView ==
    \E u \in Users, o \in Origins, idx \in Slots :
        /\ CanArrive
        /\ LET a == [BlankAct EXCEPT !.kind = "obs:view", !.user = u, !.origin = o,
                                     !.idx = idx]
           IN  IF ~HasObservation(observations, o, idx)
               THEN Arrive(Reply(a, "NotAvailable"))
               ELSE Arrive(Reply([a EXCEPT
                        !.by = getObservation(observations, o, idx).byUserId,
                        !.content = getObservation(observations, o, idx)], "View"))
        /\ UNCHANGED <<stashVars, storeVars, messages>>

\* mutant: no guard before saving, only the re-read after it
ObsModal_RereadOnly ==
    \E u \in Users, o \in Origins, idx \in Slots : \E content \in ContentInputs(u) :
        /\ CanArrive
        /\ LET a == [BlankAct EXCEPT !.kind = "obs:modal", !.user = u, !.origin = o,
                                     !.idx = idx, !.content = ObservationRow(content, u)]
               saved == saveObservation(observations, o, idx, ObservationRow(content, u))
           IN  /\ observations' = saved
               /\ IF getObservation(saved, o, idx).byUserId # u
                  THEN Arrive(Reply(a, "JustBefore"))
                  ELSE Arrive(StartBroadcast(a, saved))
        /\ UNCHANGED <<stashVars, bg_checks, message_refs, messages>>

\* mutant: the rejection names the rejected submitter, not the stored author
ObsModal_NamesSubmitter ==
    \E u \in Users, o \in Origins, idx \in Slots : \E content \in ContentInputs(u) :
        /\ CanArrive
        /\ LET a == [BlankAct EXCEPT !.kind = "obs:modal", !.user = u, !.origin = o,
                                     !.idx = idx, !.content = ObservationRow(content, u)]
               saved == saveObservation(observations, o, idx, ObservationRow(content, u))
           IN  IF HasObservation(observations, o, idx)
               THEN /\ Arrive(Reply([a EXCEPT !.by = u], "AlreadySubmitted"))
                    /\ UNCHANGED observations
               ELSE /\ observations' = saved
                    /\ IF getObservation(saved, o, idx).byUserId # u
                       THEN Arrive(Reply(a, "JustBefore"))
                       ELSE Arrive(StartBroadcast(a, saved))
        /\ UNCHANGED <<stashVars, bg_checks, message_refs, messages>>

(* obs:modal: guard, saveObservation, re-read, then editAllObsMessagesFromDb
   up to its first await *)
ObsModal ==
    \E u \in Users, o \in Origins, idx \in Slots : \E content \in ContentInputs(u) :
        /\ CanArrive
        /\ LET a == [BlankAct EXCEPT !.kind = "obs:modal", !.user = u, !.origin = o,
                                     !.idx = idx, !.content = ObservationRow(content, u)]
               saved == saveObservation(observations, o, idx, ObservationRow(content, u))
           IN  IF HasObservation(observations, o, idx)
               THEN /\ Arrive(Reply([a EXCEPT
                            !.by = getObservation(observations, o, idx).byUserId],
                            "AlreadySubmitted"))
                    /\ UNCHANGED observations
               ELSE /\ observations' = saved
                    /\ IF getObservation(saved, o, idx).byUserId # u
                       THEN Arrive(Reply(a, "JustBefore"))
                       ELSE Arrive(StartBroadcast(a, saved))
        /\ UNCHANGED <<stashVars, bg_checks, message_refs, messages>>

\* mutant: a surface that cannot be fetched ends the handler in the catch-all
ObsEditLands_AbortOnMissing ==
    \E i \in DOMAIN acts : \E m \in acts[i].pending :
        /\ acts[i].kind = "obs:modal" /\ acts[i].pc = "broadcast"
        /\ IF Fetchable(m)
           THEN /\ messages' = [messages EXCEPT ![m].components = acts[i].comps]
                /\ LET a == [acts[i] EXCEPT !.pending = acts[i].pending \ {m}]
                   IN  IF a.pending = {}
                       THEN Step(i, AfterBroadcast(a, observations))
                       ELSE Step(i, a)
           ELSE /\ UNCHANGED messages
                /\ Step(i, Reply([acts[i] EXCEPT !.skipped = @ \cup {m}], "Failure"))
        /\ UNCHANGED <<stashVars, storeVars>>

(* one edit of the fan-out lands; a surface that cannot be fetched or edited
   is skipped *)
ObsEditLands ==
    \E i \in DOMAIN acts : \E m \in acts[i].pending :
        /\ acts[i].kind = "obs:modal" /\ acts[i].pc = "broadcast"
        /\ IF Fetchable(m)
           THEN messages' = [messages EXCEPT ![m].components = acts[i].comps]
           ELSE UNCHANGED messages
        /\ LET a == [acts[i] EXCEPT
                        !.pending = acts[i].pending \ {m},
                        !.skipped = IF Fetchable(m) THEN @ ELSE @ \cup {m}]
           IN  IF a.pending = {}
               THEN Step(i, AfterBroadcast(a, observations))
               ELSE Step(i, a)
        /\ UNCHANGED <<stashVars, storeVars>>

(* the origin message and the polls channel are fetched; pollsCh.send is issued
   with the row as the store has it now *)
ObsMirrorFetch ==
    \E i \in DOMAIN acts, pollsCh \in BOOLEAN :
        /\ acts[i].kind = "obs:modal" /\ acts[i].pc = "mirrorFetch"
        /\ LET o == acts[i].origin
               refs == getMsgRefs(message_refs, o)
               base == refs # {} /\ Fetchable(o)
           IN  IF pollsCh /\ base
               THEN Step(i, [acts[i] EXCEPT
                        !.pc = "mirrorSend",
                        !.fields = messages[o].fields,
                        !.comps = buildObsRowFromDb(observations, o)])
               ELSE Step(i, Confirm(acts[i]))
        /\ UNCHANGED <<stashVars, storeVars, messages>>

(* pollsCh.send: the poll message appears, or the call fails (.catch -> null) *)
ObsMirrorSend ==
    \E i \in DOMAIN acts, ok \in BOOLEAN :
        /\ acts[i].kind = "obs:modal" /\ acts[i].pc = "mirrorSend"
        /\ IF ok
           THEN /\ messages' = MapPut(messages, NewMessageId,
                        [channelId |-> RECRUITMENT_POLLS_CHANNEL_ID,
                         title |-> "Promotion Poll",
                         image |-> messages[acts[i].origin].image,
                         fields |-> acts[i].fields, components |-> acts[i].comps,
                         deleted |-> FALSE])
                /\ Step(i, [acts[i] EXCEPT !.pc = "mirrorSent", !.url = NewMessageId])
           ELSE /\ Step(i, Confirm(acts[i]))
                /\ UNCHANGED messages
        /\ UNCHANGED <<stashVars, storeVars>>

(* after the await: addMsgRef, the two reactions, the confirmation *)
ObsMirrorSent ==
    \E i \in DOMAIN acts :
        /\ acts[i].kind = "obs:modal" /\ acts[i].pc = "mirrorSent"
        /\ message_refs' = addMsgRef(message_refs, acts[i].origin,
                                     RECRUITMENT_POLLS_CHANNEL_ID, acts[i].url)
        /\ Step(i, Confirm(acts[i]))
        /\ UNCHANGED <<stashVars, bg_checks, observations, messages>>

----------------------------------------------------------------------------
(* obs:modal with the slot index as the customId carries it: the handler
   splits the customId and passes idx on without a range test, so the index
   need not be one of the three the buttons are rendered with. The index is
   the number Number(idx) binds into the statements. *)
SlotInputs == 1..(K + 1)

ObsModalAnySlot ==
    \E u \in Users, o \in Origins, idx \in SlotInputs : \E content \in ContentInputs(u) :
        /\ CanArrive
        /\ LET a == [BlankAct EXCEPT !.kind = "obs:modal", !.user = u, !.origin = o,
                                     !.idx = idx, !.content = ObservationRow(content, u)]
               saved == saveObservation(observations, o, idx, ObservationRow(content, u))
           IN  IF HasObservation(observations, o, idx)
               THEN /\ Arrive(Reply([a EXCEPT
                            !.by = getObservation(observations, o, idx).byUserId],
                            "AlreadySubmitted"))
                    /\ UNCHANGED observations
               ELSE /\ observations' = saved
                    /\ IF getObservation(saved, o, idx).byUserId # u
                       THEN Arrive(Reply(a, "JustBefore"))
                       ELSE Arrive(StartBroadcast(a, saved))
        /\ UNCHANGED <<stashVars, bg_checks, message_refs, messages>>

----------------------------------------------------------------------------
(* Observations, unguarded revision (index.js 2758-2777): saveObservation with
   no guard before and no re-read after; the rest of the handler is the code
   of ObsEditLands .. ObsConfirm *)

ObsModalLater ==
    \E u \in Users, o \in Origins, idx \in Slots : \E content \in ContentInputs(u) :
        /\ CanArrive
        /\ LET a == [BlankAct EXCEPT !.kind = "obs:modal", !.user = u, !.origin = o,
                                     !.idx = idx, !.content = ObservationRow(content, u)]
               saved == saveObservation(observations, o, idx, ObservationRow(content, u))
           IN  /\ observations' = saved
               /\ Arrive(StartBroadcast(a, saved))
        /\ UNCHANGED <<stashVars, bg_checks, message_refs, messages>>

----------------------------------------------------------------------------
(* Specifications *)

InitStash ==
    /\ now = 0
    /\ pendingProof = <<>>
    /\ timers = {}
    /\ nextTimer = 1
    /\ bg_checks = <<>>
    /\ observations = <<>>
    /\ message_refs = {}
    /\ messages = <<>>
    /\ acts = <<>>

\* the recommendations PostedOrigins have been posted and registered; nothing else
\* has happened yet
InitPosted ==
    /\ now = 0
    /\ pendingProof = <<>>
    /\ timers = {}
    /\ nextTimer = 1
    /\ bg_checks = <<>>
    /\ observations = <<>>
    /\ message_refs = {[originMessageId |-> m, channelId |-> RECOMMEND_CHANNEL_ID,
                        messageId |-> m] : m \in PostedOrigins}
    /\ messages = [m \in PostedOrigins |-> RecommendationMessage(m)]
    /\ acts = <<>>

NextBg ==
    \/ BgStart
    \/ BgMenu
    \/ BgCancel
    \/ BgFinalize
    \/ BgFetchMsg
    \/ BgEdit
    \/ DeleteMessage

SpecBg == InitPosted /\ [][NextBg]_vars

\* the checklist projection applied to every selection a row can hold: any
\* set of the 5 keys, with or without a key that is none of them
SelectedInputs == SUBSET (Criteria \cup {"other"})

InitChecklist ==
    /\ now = 0
    /\ pendingProof = <<>>
    /\ timers = {}
    /\ nextTimer = 1
    /\ \E sel \in SelectedInputs :
          bg_checks = [m \in PostedOrigins |-> [status |-> "NULL", selected |-> sel]]
    /\ observations = <<>>
    /\ message_refs = {[originMessageId |-> m, channelId |-> RECOMMEND_CHANNEL_ID,
                        messageId |-> m] : m \in PostedOrigins}
    /\ messages = [m \in PostedOrigins |-> RecommendationMessage(m)]
    /\ acts = <<>>

NextChecklist ==
    \/ BgFinalize
    \/ BgFetchMsg
    \/ BgEdit

SpecChecklist == InitChecklist /\ [][NextChecklist]_vars

\* a handler parked at an await is resumed by the event loop once the request
\* has settled
SpecBgLive ==
    /\ SpecBg
    /\ WF_vars(BgFetchMsg)
    /\ WF_vars(BgEdit)

\* the background check of every posted recommendation has been finalized PASS
\* with the full checklist, and its message shows the observation row
PassedMessage(m) ==
    [RecommendationMessage(m) EXCEPT
        !.fields = Append(@, [name |-> "Background Check: PASS",
                              value |-> buildChecklistLinesFromSelected(Criteria)]),
        !.components = buildObsRowFromDb(<<>>, m)]

InitPassed ==
    /\ now = 0
    /\ pendingProof = <<>>
    /\ timers = {}
    /\ nextTimer = 1
    /\ bg_checks = [m \in PostedOrigins |-> [status |-> "PASS", selected |-> Criteria]]
    /\ observations = <<>>
    /\ message_refs = {[originMessageId |-> m, channelId |-> RECOMMEND_CHANNEL_ID,
                        messageId |-> m] : m \in PostedOrigins}
    /\ messages = [m \in PostedOrigins |-> PassedMessage(m)]
    /\ acts = <<>>

\* all three observations of every posted recommendation are recorded and its
\* poll has been posted and registered; the origin message shows the row of
\* the last edit that landed on it, which an overtaken broadcast can leave
\* one slot behind
RecordedBy(u) ==
    [key \in PostedOrigins \X Slots |->
        ObservationRow(CHOOSE c \in ContentInputs(u) : TRUE, u)]

PollOf(m) == Cardinality(PostedOrigins) + m

PollMessage(m, comps) ==
    [channelId |-> RECRUITMENT_POLLS_CHANNEL_ID, title |-> "Promotion Poll",
     image |-> PassedMessage(m).image, fields |-> PassedMessage(m).fields,
     components |-> comps, deleted |-> FALSE]

InitMirrored ==
    /\ now = 0
    /\ pendingProof = <<>>
    /\ timers = {}
    /\ nextTimer = 1
    /\ bg_checks = [m \in PostedOrigins |-> [status |-> "PASS", selected |-> Criteria]]
    /\ observations = RecordedBy("u1")
    /\ message_refs =
          {[originMessageId |-> m, channelId |-> RECOMMEND_CHANNEL_ID,
            messageId |-> m] : m \in PostedOrigins}
          \cup {[originMessageId |-> m, channelId |-> RECRUITMENT_POLLS_CHANNEL_ID,
                 messageId |-> PollOf(m)] : m \in PostedOrigins}
    /\ \E behind \in Slots \cup {0} :
          messages =
            [m \in PostedOrigins \cup {PollOf(o) : o \in PostedOrigins} |->
                IF m \in PostedOrigins
                THEN [PassedMessage(m) EXCEPT !.components =
                        buildObsRowFromDb(MapDel(observations, <<m, behind>>), m)]
                ELSE PollMessage(CHOOSE o \in PostedOrigins : PollOf(o) = m,
                                 buildObsRowFromDb(observations,
                                     CHOOSE o \in PostedOrigins : PollOf(o) = m))]
    /\ acts = <<>>

\* the submit handlers of the later DB revision (a filled slot can be submitted
\* again, so a broadcast can start when the ReplicaSet holds a mirror), with
\* surfaces that can disappear
NextFanout ==
    \/ Len(acts) < MaxFanoutActs /\ ObsModalLater
    \/ ObsEditLands
    \/ ObsMirrorFetch
    \/ ObsMirrorSend
    \/ ObsMirrorSent
    \/ DeleteMessage

SpecFanout == InitMirrored /\ [][NextFanout]_vars

NextObs ==
    \/ ObsStart
    \/ ObsView
    \/ ObsModal
    \/ ObsEditLands
    \/ ObsMirrorFetch
    \/ ObsMirrorSend
    \/ ObsMirrorSent

SpecObs == InitPassed /\ [][NextObs]_vars

\* the polls channel is configured and reachable: its fetch and the send succeed
ReachedPolls ==
    \E i \in DOMAIN acts : acts[i].pc = "mirrorFetch" /\ acts'[i].pc = "mirrorSend"

PollSent ==
    \E i \in DOMAIN acts : acts[i].pc = "mirrorSend" /\ acts'[i].pc = "mirrorSent"

NextObsReachable ==
    \/ ObsStart
    \/ ObsView
    \/ ObsModal
    \/ ObsEditLands
    \/ ObsMirrorFetch /\ ReachedPolls
    \/ ObsMirrorSend /\ PollSent
    \/ ObsMirrorSent

\* every request a handler awaits settles, and the event loop then resumes it
SpecObsLive ==
    /\ InitPassed
    /\ [][NextObsReachable]_vars
    /\ WF_vars(ObsEditLands)
    /\ WF_vars(ObsMirrorFetch /\ ReachedPolls)
    /\ WF_vars(ObsMirrorSend /\ PollSent)
    /\ WF_vars(ObsMirrorSent)

\* the observation handlers with every slot index a customId can carry
NextObsSlots ==
    \/ ObsStart
    \/ ObsView
    \/ ObsModalAnySlot
    \/ ObsEditLands
    \/ ObsMirrorFetch
    \/ ObsMirrorSend
    \/ ObsMirrorSent

SpecObsSlots == InitPassed /\ [][NextObsSlots]_vars

NextObsLater ==
    \/ ObsStart
    \/ ObsView
    \/ ObsModalLater
    \/ ObsEditLands
    \/ ObsMirrorFetch
    \/ ObsMirrorSend
    \/ ObsMirrorSent

SpecObsLater == InitPassed /\ [][NextObsLater]_vars

\* first-wins revision, background check and observations together
Next ==
    \/ NextBg
    \/ NextObs

Spec == InitPosted /\ [][Next]_vars

NextBgLater ==
    \/ BgStartLater
    \/ BgMenuLater
    \/ BgCancel
    \/ BgFinalizeLater
    \/ BgFetchMsg
    \/ BgEdit
    \/ DeleteMessage

SpecBgLater == InitPosted /\ [][NextBgLater]_vars

NextStash ==
    \/ RecommendCommand
    \/ RecommendContinue
    \/ RecommendCancel
    \/ RecommendSubmit
    \/ RecommendFetchDest
    \/ RecommendSend
    \/ RecommendSent
    \/ TimerFire
    \/ Tick

SpecStash == InitStash /\ [][NextStash]_vars

\* time goes on, and the event loop runs a timer callback that is due
SpecStashLive ==
    /\ SpecStash
    /\ WF_vars(Tick)
    /\ WF_vars(TimerFire)

\* the /recommend flow of the in-memory revision
NextStashMem ==
    \/ RecommendCommandMem
    \/ RecommendContinueMem
    \/ RecommendCancel
    \/ RecommendSubmitMem
    \/ RecommendFetchDest
    \/ RecommendSend
    \/ RecommendSentMem
    \/ TimerFire
    \/ Tick

SpecStashMem == InitStash /\ [][NextStashMem]_vars

----------------------------------------------------------------------------
(* Session stash: properties *)

Max(S) == CHOOSE x \in S : \A y \in S : y <= x

\* interactions that took the stash entry of token t and went past the owner check
Took(t) ==
    {i \in DOMAIN acts : /\ acts[i].kind = "recommend_modal"
                         /\ acts[i].token = t
                         /\ acts[i].reply # "SessionExpired"}

\* C9: stash single use. Of all recommend.submit interactions carrying one
\* token, at most one is handed the entry by consumePending, and once one has
\* been, the entry is gone from the stash: every later consume of that token
\* finds nothing (its interaction ends in SessionExpired).
C9_StashSingleUse ==
    \A t \in Tokens :
        /\ Cardinality(Took(t)) <= 1
        /\ Took(t) # {} => t \notin DOMAIN pendingProof

\* C9 witness: the owner submitted the same token twice; the first submit got
\* the entry, the second found nothing.
C9_Witness ==
    \E i, j \in DOMAIN acts :
        /\ i < j
        /\ acts[i].kind = "recommend_modal" /\ acts[j].kind = "recommend_modal"
        /\ acts[i].token = acts[j].token
        /\ acts[i].user = acts[j].user
        /\ acts[i].found /\ i \in Took(acts[i].token)
        /\ ~acts[j].found /\ acts[j].reply = "SessionExpired"

\* times at which the expiry timer of interaction i's token was armed before i
\* arrived: by the /recommend that created it, and by every continue that found it
ArmTimes(i) ==
    {acts[j].at : j \in {j \in 1..(i - 1) :
        /\ acts[j].token = acts[i].token
        /\ \/ acts[j].kind = "recommend"
           \/ acts[j].kind = "recommend:continue" /\ acts[j].found}}

AfterExpiry(i) ==
    /\ acts[i].kind \in {"recommend:continue", "recommend_modal"}
    /\ ArmTimes(i) # {}
    /\ acts[i].at > Max(ArmTimes(i)) + STASH_TTL_MS

\* C10: TTL expiry. No entry is in the stash after its expiresAt has passed, and
\* a recommend.continue or recommend.submit that arrives after the token's last
\* TTL window has elapsed finds no entry, answers SessionExpired and posts nothing.
C10_TtlExpiry ==
    /\ \A t \in DOMAIN pendingProof : now <= pendingProof[t].expiresAt
    /\ \A i \in DOMAIN acts :
          AfterExpiry(i) =>
              /\ ~acts[i].found
              /\ acts[i].reply = "SessionExpired"
              /\ acts[i].origin = 0

\* C10 witness: a submit arrived after the entry's TTL had elapsed, the entry
\* having been neither refreshed nor consumed before.
C10_Witness ==
    \E i \in DOMAIN acts :
        /\ acts[i].kind = "recommend_modal"
        /\ AfterExpiry(i)
        /\ \A j \in 1..(i - 1) : acts[j].token = acts[i].token => acts[j].kind = "recommend"
        /\ acts[i].reply = "SessionExpired"

\* the step in which an interaction of the given kind is received
Receives(kind) ==
    /\ Len(acts') = Len(acts) + 1
    /\ acts'[Len(acts')].kind = kind

\* C11: refresh. A recommend.continue on a live token leaves the entry's url,
\* userId and createdAt as they were, sets expiresAt to a full TTL from now and
\* leaves exactly one timer for the token, due at that time (the timer of the
\* original deadline is gone); on a missing token it reports not-found and
\* leaves the stash and the timers as they were.
C11_Refresh ==
    [][Receives("recommend:continue") =>
        LET a == acts'[Len(acts')]
            t == a.token
        IN  IF t \in DOMAIN pendingProof
            THEN /\ a.found
                 /\ t \in DOMAIN pendingProof'
                 /\ pendingProof'[t].url = pendingProof[t].url
                 /\ pendingProof'[t].userId = pendingProof[t].userId
                 /\ pendingProof'[t].createdAt = pendingProof[t].createdAt
                 /\ pendingProof'[t].expiresAt = now + STASH_TTL_MS
                 /\ {tm \in timers' : tm.token = t} =
                        {[id |-> pendingProof'[t].timer, token |-> t,
                          at |-> now + STASH_TTL_MS]}
            ELSE /\ ~a.found
                 /\ a.reply = "SessionExpired"
                 /\ pendingProof' = pendingProof
                 /\ timers' = timers]_vars

\* C11 witness: an entry refreshed some time after its creation is still in the
\* stash when its original deadline has come, with its expiry still ahead.
C11_Witness ==
    \E t \in DOMAIN pendingProof : \E j \in DOMAIN acts :
        /\ acts[j].kind = "recommend:continue" /\ acts[j].token = t /\ acts[j].found
        /\ acts[j].at > acts[t].at
        /\ now >= acts[t].at + STASH_TTL_MS
        /\ pendingProof[t].expiresAt = acts[j].at + STASH_TTL_MS
        /\ pendingProof[t].expiresAt > now

\* a submit that went past the owner check and ended in a destination error
SubmitErrors ==
    {i \in DOMAIN acts : /\ acts[i].kind = "recommend_modal"
                          /\ acts[i].found
                          /\ acts[i].reply \in {"DestMissing", "NoPermission"}}

\* C12: a failed submit keeps the entry. After a recommend.submit ended in a
\* destination error, with no later interaction on its token and the token's
\* TTL window still open, the entry is still in the stash.
C12_ErrorKeepsEntry ==
    \A i \in SubmitErrors :
        (/\ \A j \in (i + 1)..Len(acts) : acts[j].token # acts[i].token
         /\ now < Max(ArmTimes(i)) + STASH_TTL_MS)
        => acts[i].token \in DOMAIN pendingProof

----------------------------------------------------------------------------
(* Background check: properties *)

Finalizes(o) ==
    {i \in DOMAIN acts : acts[i].kind \in {"bg:pass", "bg:decline"} /\ acts[i].origin = o}

\* finalize interactions that were not turned away by the first-wins guard
Winners(o) == {i \in Finalizes(o) : acts[i].reply # "AlreadyFinalized"}

Status(o) == getBg(bg_checks, o).status

\* C1: finalize race. Of all finalize interactions on one origin, in flight or
\* finished, exactly one got past the guard; the persisted status is the one it
\* asked for, and every other was answered AlreadyFinalized without a store
\* write or a message edit of its own.
C1_FinalizeRace ==
    \A o \in Origins :
        Finalizes(o) # {} =>
            /\ Cardinality(Winners(o)) = 1
            /\ \A i \in Winners(o) : Status(o) = StatusWord(acts[i].kind)
            /\ \A i \in Finalizes(o) \ Winners(o) :
                  acts[i].pc = "done" /\ acts[i].fields = <<>>

\* C1 witness: a second reviewer's finalize, asking for the other status, was
\* handled while the first one was still parked at an await.
C1_Witness ==
    \E o \in Origins : \E i, j \in Finalizes(o) :
        /\ i < j
        /\ acts[i].user # acts[j].user
        /\ acts[i].kind # acts[j].kind
        /\ acts[i].pc # "done"
        /\ acts[j].reply = "AlreadyFinalized"
        /\ Status(o) = StatusWord(acts[i].kind)

\* C2: terminal invariant of BackgroundCheck. Once a row's status is PASS or
\* FAIL, no step changes its status or its selection.
C2_TerminalRecord ==
    [][\A o \in DOMAIN bg_checks :
          bg_checks[o].status \in {"PASS", "FAIL"} => bg_checks'[o] = bg_checks[o]]_vars

\* C7: complete-checklist gate. When a reviewer who was offered Pass (their
\* own selection had all 5 criteria) finalizes pass and the finalize is
\* accepted, the record that now has status PASS has all 5 criteria in its
\* stored selection.
C7_CompleteChecklistGate ==
    \A o \in Origins : \A i \in Winners(o) :
        (/\ acts[i].kind = "bg:pass"
         /\ \E j \in 1..(i - 1) : /\ acts[j].kind = "bg:menu"
                                  /\ acts[j].origin = o
                                  /\ acts[j].user = acts[i].user
                                  /\ acts[j].reply = "Pass+Cancel")
        => getBg(bg_checks, o).selected = Criteria

\* C8: no partial mutation on a finalize error. While the only finalize
\* interactions handled on an origin are ones that ended in an error (the origin
\* message could not be fetched or edited), its status is still unset.
C8_NoPartialFinalize ==
    \A o \in Origins :
        (/\ Finalizes(o) # {}
         /\ \A i \in Finalizes(o) : acts[i].reply \in {"CouldNotUpdate", "Failure"})
        => Status(o) = "NULL"

\* C13: actions on a Finalized record. A bg:start, bg:menu, bg:pass or
\* bg:decline received for an origin whose status is PASS or FAIL is answered
\* AlreadyFinalized at once, with bg_checks and every message left as they
\* were; a bg:start for an origin that is not finalized is shown the checklist.
C13_FinalizedRejects ==
    [][\A kind \in {"bg:start", "bg:menu", "bg:pass", "bg:decline"} :
          Receives(kind) =>
              LET a == acts'[Len(acts')]
              IN  IF Status(a.origin) \in {"PASS", "FAIL"}
                  THEN /\ a.reply = "AlreadyFinalized"
                       /\ a.pc = "done"
                       /\ bg_checks' = bg_checks
                       /\ messages' = messages
                  ELSE kind = "bg:start" => a.reply = "Menu"]_vars

\* C13 witness: on a finalized origin a bg:start and a bg:menu carrying another
\* selection than the stored one were both turned away.
C13_Witness ==
    \E o \in Origins : \E j, k \in DOMAIN acts :
        /\ Status(o) \in {"PASS", "FAIL"}
        /\ acts[j].kind = "bg:menu" /\ acts[j].origin = o
        /\ acts[j].values # getBg(bg_checks, o).selected
        /\ acts[j].reply = "AlreadyFinalized"
        /\ acts[k].kind = "bg:start" /\ acts[k].origin = o
        /\ acts[k].reply = "AlreadyFinalized"

\* bg:menu interactions on origin o whose selection was committed
Committed(o) ==
    {i \in DOMAIN acts : /\ acts[i].kind = "bg:menu" /\ acts[i].origin = o
                          /\ acts[i].reply # "AlreadyFinalized"}

\* C14: updateSelection overwrites. The stored selection of an origin is
\* exactly the values of the last committed bg:menu on it (empty when there
\* was none), whoever sent it; storing those values once more changes nothing;
\* and as long as no finalize was accepted the status is unset.
C14_SelectionOverwrite ==
    \A o \in Origins :
        /\ getBg(bg_checks, o).selected =
              IF Committed(o) = {} THEN {} ELSE acts[Max(Committed(o))].values
        /\ Committed(o) # {} =>
              saveBgSelection(bg_checks, o, acts[Max(Committed(o))].values) = bg_checks
        /\ Winners(o) = {} => Status(o) = "NULL"

\* C14 witness: one reviewer stored all 5 criteria, another then stored the
\* empty selection twice; the record holds the empty selection, status unset.
C14_Witness ==
    \E o \in Origins : \E i, j, k \in Committed(o) :
        /\ i < j /\ j < k
        /\ acts[i].values = Criteria
        /\ acts[j].values = {} /\ acts[k].values = {}
        /\ acts[i].user # acts[j].user
        /\ getBg(bg_checks, o).selected = {}
        /\ Status(o) = "NULL"

----------------------------------------------------------------------------
(* Observations: properties *)

Submits(o, k) ==
    {i \in DOMAIN acts : acts[i].kind = "obs:modal" /\ acts[i].origin = o /\ acts[i].idx = k}

\* submits that were not turned away: their row went into the store
Savers(o, k) ==
    {i \in Submits(o, k) : acts[i].reply \notin {"AlreadySubmitted", "JustBefore"}}

\* obs:view / obs:start interactions that were shown a stored row
Views(o, k) ==
    {i \in DOMAIN acts : /\ acts[i].kind \in {"obs:view", "obs:start"}
                         /\ acts[i].origin = o /\ acts[i].idx = k
                         /\ acts[i].reply = "View"}

\* C3: slot race. Of all submits of one (origin, slot), in flight or finished,
\* exactly one stored its row; the row in the store is that submitter's content
\* and user id, and every view or start that showed the slot showed that row,
\* never the content of a submit that was turned away.
C3_SlotRace ==
    \A o \in Origins : \A k \in Slots :
        Submits(o, k) # {} =>
            /\ Cardinality(Savers(o, k)) = 1
            /\ HasObservation(observations, o, k)
            /\ \A i \in Savers(o, k) :
                  /\ getObservation(observations, o, k) = acts[i].content
                  /\ getObservation(observations, o, k).byUserId = acts[i].user
            /\ \A v \in Views(o, k) :
                  acts[v].content = getObservation(observations, o, k)

\* C3 witness: a second observer submitted other content for the same slot
\* while the first submit was still in flight and was turned away, and a view
\* of the slot then showed the first observer's row.
C3_Witness ==
    \E o \in Origins : \E k \in Slots : \E i, j \in Submits(o, k) : \E v \in Views(o, k) :
        /\ i < j /\ j < v
        /\ acts[i].pc # "done"
        /\ acts[i].user # acts[j].user
        /\ acts[i].content.notes # acts[j].content.notes
        /\ acts[j].reply = "AlreadySubmitted"
        /\ acts[v].content = acts[i].content

\* C4: slot immutability. A row of the observations table, once there, is
\* never changed or removed by any step.
C4_SlotImmutable ==
    [][\A key \in DOMAIN observations :
          key \in DOMAIN observations' /\ observations'[key] = observations[key]]_vars

Mirrors(o) == {r \in getMsgRefs(message_refs, o) : r.messageId # o}

PollMessages(o) ==
    {m \in DOMAIN messages : /\ messages[m].title = "Promotion Poll"
                             /\ messages[m].image = messages[o].image}

\* C5: completion idempotence. For every origin at most one poll message is
\* ever created, and at most one is registered in its ReplicaSet.
C5_OneMirror ==
    \A o \in Origins :
        /\ Cardinality(PollMessages(o)) <= 1
        /\ Cardinality(Mirrors(o)) <= 1

\* C6: stage ordering. An observation row exists only for an origin whose
\* background check has status PASS.
C6_StageOrdering ==
    \A key \in DOMAIN observations : Status(key[1]) = "PASS"

\* C15: submit on a filled slot. An obs:modal received for a slot that has a row
\* is answered SlotAlreadyRecorded at once, the answer names the byUserId of
\* the stored row, and the observations table is left as it was.
C15_SlotAlreadyRecorded ==
    [][Receives("obs:modal") =>
        LET a == acts'[Len(acts')]
        IN  HasObservation(observations, a.origin, a.idx) =>
                /\ a.reply = "AlreadySubmitted"
                /\ a.pc = "done"
                /\ a.by = getObservation(observations, a.origin, a.idx).byUserId
                /\ observations' = observations]_vars

\* C15 witness: a second observer's submit on a filled slot was turned away
\* with the first observer's id, and the row is still the first observer's.
C15_Witness ==
    \E i, j \in DOMAIN acts :
        /\ i < j
        /\ acts[i].kind = "obs:modal" /\ acts[j].kind = "obs:modal"
        /\ acts[i].origin = acts[j].origin /\ acts[i].idx = acts[j].idx
        /\ acts[i].user # acts[j].user
        /\ acts[j].reply = "AlreadySubmitted"
        /\ acts[j].by = acts[i].user
        /\ getObservation(observations, acts[i].origin, acts[i].idx) = acts[i].content

\* C16: start on a slot. An obs:start received for a slot that has a row is
\* answered with the read-only view of that row, and for a slot without a row
\* with the input prompt; either way observations, bg_checks and message_refs
\* are left as they were.
C16_StartRedirects ==
    [][Receives("obs:start") =>
        LET a == acts'[Len(acts')]
        IN  /\ IF HasObservation(observations, a.origin, a.idx)
               THEN /\ a.reply = "View"
                    /\ a.content = getObservation(observations, a.origin, a.idx)
               ELSE a.reply = "Modal"
            /\ a.pc = "done"
            /\ UNCHANGED storeVars]_vars

\* C16 witness: the same slot was started while empty (prompt), then recorded
\* by an observer, then started again by someone else (view of that row).
C16_Witness ==
    \E i, j, k \in DOMAIN acts :
        /\ i < j /\ j < k
        /\ acts[i].kind = "obs:start" /\ acts[i].reply = "Modal"
        /\ acts[j].kind = "obs:modal" /\ acts[j].reply \notin {"AlreadySubmitted", "JustBefore"}
        /\ acts[k].kind = "obs:start" /\ acts[k].reply = "View"
        /\ acts[i].origin = acts[j].origin /\ acts[i].idx = acts[j].idx
        /\ acts[k].origin = acts[j].origin /\ acts[k].idx = acts[j].idx
        /\ acts[k].user # acts[j].user
        /\ acts[k].content = acts[j].content

\* C17: view is a pure read. An obs:view leaves observations, bg_checks and
\* message_refs as they were; for a slot that has a row it returns that row's
\* content and author, and for a slot without a row it fails with
\* SlotNotRecorded.
C17_ViewPureRead ==
    [][Receives("obs:view") =>
        LET a == acts'[Len(acts')]
        IN  /\ IF HasObservation(observations, a.origin, a.idx)
               THEN /\ a.reply = "View"
                    /\ a.content = getObservation(observations, a.origin, a.idx)
                    /\ a.by = getObservation(observations, a.origin, a.idx).byUserId
               ELSE a.reply = "NotAvailable"
            /\ a.pc = "done"
            /\ UNCHANGED storeVars]_vars

\* C17 witness: a slot was viewed while empty (error), then recorded, then
\* viewed by another user, who got the recorded row and its author.
C17_Witness ==
    \E i, j, k \in DOMAIN acts :
        /\ i < j /\ j < k
        /\ acts[i].kind = "obs:view" /\ acts[i].reply = "NotAvailable"
        /\ acts[j].kind = "obs:modal" /\ acts[j].reply \notin {"AlreadySubmitted", "JustBefore"}
        /\ acts[k].kind = "obs:view" /\ acts[k].reply = "View"
        /\ acts[i].origin = acts[j].origin /\ acts[i].idx = acts[j].idx
        /\ acts[k].origin = acts[j].origin /\ acts[k].idx = acts[j].idx
        /\ acts[k].user # acts[j].user
        /\ acts[k].content = acts[j].content /\ acts[k].by = acts[j].user

\* ids of the surfaces in the ReplicaSet of origin o
Surfaces(o) == {r.messageId : r \in getMsgRefs(message_refs, o)}

\* the step in which one edit of interaction i's broadcast is settled
Lands(i) == acts[i].pc = "broadcast" /\ acts'[i] # acts[i]

\* C18: best-effort fan-out. A broadcast takes every surface of the origin's
\* ReplicaSet as read when it starts. Each surface is settled once: when it can
\* be fetched its components become the broadcast's row, otherwise no message
\* changes; either way the handler does not end in an error, the surfaces
\* still pending stay pending with the same row, and the handler leaves the
\* broadcast only when none is pending.
C18_BestEffortFanout ==
    [][/\ Receives("obs:modal") =>
            LET a == acts'[Len(acts')]
            IN  a.pc = "broadcast" =>
                    a.pending = Surfaces(a.origin) /\ a.skipped = {}
       /\ \A i \in DOMAIN acts :
            Lands(i) =>
                \E m \in acts[i].pending :
                    /\ IF Fetchable(m)
                       THEN /\ messages' = [messages EXCEPT
                                               ![m].components = acts[i].comps]
                            /\ acts'[i].skipped = acts[i].skipped
                       ELSE /\ messages' = messages
                            /\ acts'[i].skipped = acts[i].skipped \cup {m}
                    /\ acts'[i].reply # "Failure"
                    /\ IF acts[i].pending = {m}
                       THEN acts'[i].pc # "broadcast"
                       ELSE /\ acts'[i].pc = "broadcast"
                            /\ acts'[i].pending = acts[i].pending \ {m}
                            /\ acts'[i].comps = acts[i].comps]_vars

\* C18 witness: a broadcast over the origin and its poll has ended without an
\* error although one of the two surfaces was gone; the other one was edited
\* and shows the current row.
C18_Witness ==
    \E i \in DOMAIN acts : \E m1 \in acts[i].skipped :
        \E m2 \in acts[i].surfaces \ acts[i].skipped :
            /\ acts[i].kind = "obs:modal"
            /\ acts[i].pc # "broadcast"
            /\ acts[i].reply # "Failure"
            /\ messages[m1].deleted
            /\ Fetchable(m2)
            /\ messages[m2].components = buildObsRowFromDb(observations, acts[i].origin)

\* recommend_modal interactions whose post has returned to the handler
Posted == {i \in DOMAIN acts : acts[i].kind = "recommend_modal" /\ acts[i].reply = "Sent"}

\* C19: ReplicaSet. Once the post of a recommendation has returned, the pair
\* (destination channel, message id) of that message is in the ReplicaSet of
\* the origin in every state, and no step removes a pair from message_refs.
C19_ReplicaSet ==
    /\ [](\A i \in Posted :
            [originMessageId |-> acts[i].origin, channelId |-> RECOMMEND_CHANNEL_ID,
             messageId |-> acts[i].origin] \in getMsgRefs(message_refs, acts[i].origin))
    /\ [][message_refs \subseteq message_refs']_vars

\* C19 witness: a recommendation was posted, another interaction was handled
\* after it, and the origin's own pair is in its ReplicaSet.
C19_Witness ==
    \E i \in Posted : \E j \in DOMAIN acts :
        /\ j > i /\ acts[j].at >= acts[i].at
        /\ acts[i].origin \in Surfaces(acts[i].origin)
        /\ messages[acts[i].origin].channelId = RECOMMEND_CHANNEL_ID

\* C20: mirror registered before the next broadcast. A broadcast that starts
\* when a poll message of its origin exists has that message among the
\* surfaces it is going to edit.
C20_MirrorRegisteredFirst ==
    [][Receives("obs:modal") =>
        LET a == acts'[Len(acts')]
        IN  a.pc = "broadcast" =>
                {m \in PollMessages(a.origin) : Fetchable(m)} \subseteq a.pending]_vars

\* C21: the Observation stage is opened. Once the status of an origin is PASS,
\* its message, unless it is deleted, eventually shows the observation row.
C21_StageOpened ==
    \A o \in PostedOrigins :
        (Status(o) = "PASS") ~>
            (messages[o].deleted \/ messages[o].components = buildObsRowFromDb(observations, o))

\* C22: mirror liveness. With the polls channel reachable and the origin
\* message fetchable, once all K slots of an origin have rows a poll message
\* of that origin is eventually created and registered in its ReplicaSet.
C22_MirrorLiveness ==
    \A o \in PostedOrigins :
        (Cardinality(getDoneSet(observations, o)) = K) ~>
            (\E r \in Mirrors(o) : r.messageId \in PollMessages(o))

\* C22 witness: all K slots were filled by overlapping submits and the poll is
\* registered.
C22_Witness ==
    \E o \in PostedOrigins :
        /\ Cardinality(getDoneSet(observations, o)) = K
        /\ \E r \in Mirrors(o) : r.messageId \in PollMessages(o)
        /\ \E i \in DOMAIN acts : acts[i].kind = "obs:modal" /\ acts[i].pc # "done"

Answered(i) == i \in DOMAIN acts /\ acts[i].reply # ""

BgFields(m) ==
    {n \in DOMAIN messages[m].fields : IsBgField(messages[m].fields[n])}

\* C24: checklist projection. The checklist rendered into a message from a
\* stored selection has exactly 5 lines, for age, safechat, seen, comms and
\* history in this order; a line is ticked if and only if its key is in the
\* selection; a key that is none of the 5 changes nothing.
C24_ChecklistProjection ==
    \A o \in Origins : \A n \in BgFields(o) :
        LET lines == messages[o].fields[n].value
            selected == getBg(bg_checks, o).selected
            keys == <<"age", "safechat", "seen", "comms", "history">>
        IN  /\ Len(lines) = 5
            /\ \A k \in 1..5 : /\ lines[k].label = keys[k]
                                /\ lines[k].ok <=> keys[k] \in selected
            /\ lines = buildChecklistLinesFromSelected(selected \ {"other"})

\* C24 witness: a message shows the checklist of a selection that holds some
\* of the 5 keys, not all, and a foreign key.
C24_Witness ==
    \E o \in Origins : \E n \in BgFields(o) :
        LET selected == getBg(bg_checks, o).selected
        IN  /\ "other" \in selected
            /\ selected \cap Criteria \notin {{}, Criteria}
            /\ \E k, l \in 1..5 : /\ messages[o].fields[n].value[k].ok
                                   /\ ~messages[o].fields[n].value[l].ok

\* C25: header after finalize. When every finalize handled on an origin has
\* ended with its edit applied, the origin message carries exactly one
\* background-check field and its header names the persisted status.
C25_HeaderMatchesStatus ==
    \A o \in Origins :
        (/\ Finalizes(o) # {}
         /\ \A i \in Finalizes(o) : acts[i].reply = "Recorded")
        => /\ Cardinality(BgFields(o)) = 1
           /\ \A n \in BgFields(o) :
                 messages[o].fields[n].name = "Background Check: " \o Status(o)

\* the last instant the clock of the model reaches
Horizon == MaxTicks * TickMs

\* C26: stash garbage collection. In every state each entry of the stash has
\* its timer armed, due at the entry's expiresAt; and every entry is eventually
\* absent (or has been re-armed to expire beyond the last instant the clock
\* reaches), with nothing but consume, cancel and the timers removing entries.
C26_StashCollected ==
    /\ [](\A t \in DOMAIN pendingProof :
            [id |-> pendingProof[t].timer, token |-> t,
             at |-> pendingProof[t].expiresAt] \in timers)
    /\ \A t \in 1..MaxActs :
          (t \in DOMAIN pendingProof) ~>
              (t \notin DOMAIN pendingProof \/ pendingProof[t].expiresAt > Horizon)

\* C26 witness: an entry that was never consumed or cancelled is gone, removed
\* by its timer.
C26_Witness ==
    \E t \in Tokens :
        /\ acts[t].kind = "recommend"
        /\ t \notin DOMAIN pendingProof
        /\ \A j \in DOMAIN acts :
              acts[j].token = t => acts[j].kind \in {"recommend", "recommend:continue"}
        /\ \E j \in DOMAIN acts :
              acts[j].token = t /\ acts[j].kind = "recommend:continue" /\ acts[j].found

\* C27: replica convergence. When no obs:modal handler of an origin is in
\* flight, every surface of its ReplicaSet that can be fetched shows the row
\* computed from the store as it is now.
C27_ReplicaConvergence ==
    \A o \in Origins :
        (\A i \in DOMAIN acts :
            acts[i].kind = "obs:modal" /\ acts[i].origin = o => acts[i].pc = "done")
        => \A m \in Surfaces(o) :
              Fetchable(m) => messages[m].components = buildObsRowFromDb(observations, o)

\* C28: owner isolation. A recommend:continue or recommend_modal received for
\* a live token from a user who is not the entry's owner is answered
\* SessionExpired and leaves the entry in the stash with the same url, owner
\* and expiresAt.
C28_OwnerIsolation ==
    [][\A kind \in {"recommend:continue", "recommend_modal"} :
          Receives(kind) =>
              LET a == acts'[Len(acts')]
              IN  (a.token \in DOMAIN pendingProof
                   /\ pendingProof[a.token].userId # a.user)
                  => /\ a.reply = "SessionExpired"
                     /\ a.token \in DOMAIN pendingProof'
                     /\ pendingProof'[a.token].url = pendingProof[a.token].url
                     /\ pendingProof'[a.token].userId = pendingProof[a.token].userId
                     /\ pendingProof'[a.token].expiresAt =
                            pendingProof[a.token].expiresAt]_vars

\* recommend.submit interactions of token t whose dest.send put a message in
\* the recommendations channel
Posts(t) ==
    {i \in DOMAIN acts : /\ acts[i].kind = "recommend_modal"
                         /\ acts[i].token = t
                         /\ acts[i].origin # 0}

\* C29: at most one recommendation is posted per stash token, whatever the
\* interleaving of the recommend.submit interactions that carry it.
C29_OnePostPerToken ==
    \A t \in Tokens : Cardinality(Posts(t)) <= 1

\* the time of the most recent put or refresh of token t: the /recommend that
\* created the entry, or the last continue that found it
LastArm(t) ==
    Max({acts[j].at : j \in {j \in DOMAIN acts :
            /\ acts[j].token = t
            /\ \/ acts[j].kind = "recommend"
               \/ acts[j].kind = "recommend:continue" /\ acts[j].found}})

\* a timer callback removes the entry of token t (no interaction is received
\* or resumed in the step)
Expires(t) ==
    /\ t \in DOMAIN pendingProof
    /\ t \notin DOMAIN pendingProof'
    /\ acts' = acts

C31_ObsRowProjection ==
    \A o \in Origins :
        LET row == buildObsRowFromDb(observations, o)
        IN  /\ Len(row) = K
            /\ \A i \in 1..K :
                  /\ row[i].idx = i
                  /\ row[i].id = IF <<o, i>> \in DOMAIN observations
                                 THEN "obs:view" ELSE "obs:start"

\* C31 witness: a later slot is recorded while the first one is not, a row
\* with an index past K is in the store, and the origin message shows the row
\* built from that store.
C31_Witness ==
    \E o \in Origins :
        /\ <<o, 1>> \notin DOMAIN observations
        /\ <<o, 2>> \in DOMAIN observations
        /\ <<o, K + 1>> \in DOMAIN observations
        /\ messages[o].components =
              <<[id |-> "obs:start", idx |-> 1], [id |-> "obs:view", idx |-> 2],
                [id |-> "obs:start", idx |-> 3]>>

\* the buttons a reply of the background-check flow carries
Offered(reply) ==
    CASE reply = "Pass+Cancel" -> {"Pass", "Cancel"}
      [] reply = "Decline+Cancel" -> {"Decline", "Cancel"}
      [] OTHER -> {}

\* C32: finalize affordances. The reply to a bg:menu whose selection is saved
\* offers Pass exactly when all 5 criteria are selected, Decline exactly when
\* fewer than 5 are, never both, and always Cancel; the reply to a bg:start
\* offers no finalize button.
C32_FinalizeAffordances ==
    [][/\ Receives("bg:menu") =>
            LET a == acts'[Len(acts')]
            IN  Status(a.origin) \notin {"PASS", "FAIL"} =>
                   /\ "Pass" \in Offered(a.reply) <=> a.values = Criteria
                   /\ "Decline" \in Offered(a.reply) <=> Cardinality(a.values) < 5
                   /\ ~({"Pass", "Decline"} \subseteq Offered(a.reply))
                   /\ "Cancel" \in Offered(a.reply)
       /\ Receives("bg:start") =>
            Offered(acts'[Len(acts')].reply) \cap {"Pass", "Decline"} = {}]_vars

\* C32 witness: a reviewer opened the checklist (no finalize button), saved 4
\* of the 5 criteria and was offered Decline, then saved all 5 and was offered
\* Pass.
C32_Witness ==
    \E i, j, k \in DOMAIN acts :
        /\ i < j /\ j < k
        /\ acts[i].origin = acts[j].origin /\ acts[j].origin = acts[k].origin
        /\ acts[i].kind = "bg:start" /\ acts[i].reply = "Menu"
        /\ acts[j].kind = "bg:menu" /\ Cardinality(acts[j].values) = 4
        /\ Offered(acts[j].reply) = {"Decline", "Cancel"}
        /\ acts[k].kind = "bg:menu" /\ acts[k].values = Criteria
        /\ Offered(acts[k].reply) = {"Pass", "Cancel"}

\* recommend:cancel interactions of token t
Cancels(t) ==
    {j \in DOMAIN acts : acts[j].kind = "recommend:cancel" /\ acts[j].token = t}

C34_BgCancelFrame ==
    [][Receives("bg:cancel") =>
          /\ bg_checks' = bg_checks
          /\ observations' = observations
          /\ message_refs' = message_refs
          /\ messages' = messages]_vars

\* C34 witness: a reviewer saved a non-empty selection and then cancelled; the
\* record still holds that selection, status unset.
C34_Witness ==
    \E o \in Origins : \E i \in Committed(o) : \E j \in DOMAIN acts :
        /\ i < j
        /\ acts[j].kind = "bg:cancel" /\ acts[j].user = acts[i].user
        /\ acts[i].values # {}
        /\ \A n \in Committed(o) : n <= i
        /\ getBg(bg_checks, o).selected = acts[i].values
        /\ Status(o) = "NULL"

\* C35: completion trigger. Whenever the all-slots-filled test (haveAllThree)
\* is true of an origin, each slot 1..K of that origin has a row, whatever
\* slot indices the obs:modal interactions received so far carried.
C35_CompletionTrigger ==
    \A o \in Origins :
        haveAllThree(observations, o) =>
            \A k \in Slots : HasObservation(observations, o, k)

\* origins that have a row in bg_checks or in observations
StoredOrigins == DOMAIN bg_checks \cup {key[1] : key \in DOMAIN observations}

\* C36: RecordNotFound leaves the store untouched. A bg:menu, bg:pass,
\* bg:decline or obs:modal received for an origin that has no ReplicaSet entry
\* or whose message no longer exists changes neither bg_checks nor
\* observations, and every row of the two tables belongs to an origin that is
\* registered in the ReplicaSet.
C36_RecordNotFound ==
    /\ [][\A kind \in {"bg:menu", "bg:pass", "bg:decline", "obs:modal"} :
            Receives(kind) =>
                LET o == acts'[Len(acts')].origin
                IN  (getMsgRefs(message_refs, o) = {} \/ ~Fetchable(o))
                    => /\ bg_checks' = bg_checks
                       /\ observations' = observations]_vars
    /\ [](\A o \in StoredOrigins : getMsgRefs(message_refs, o) # {})

====
